---- MODULE Spec2Model ----
(***************************************************************************)
(* Model of the pendulum-on-cart environment (src/tp_env.py), its reward   *)
(* manager (src/reward.py) and the rollout loop that drives them           *)
(* (src/train.py).                                                         *)
(*                                                                         *)
(* Numbers.  A float x of the program is the integer round(x * Scale),     *)
(* Scale = 10^5, so that eps*dt = 1e-3 * 1e-2 is one unit.  A product by a *)
(* literal of the program (dt = 0.01, force_smoothing = 0.1, length = 0.5, *)
(* ...) is taken with the literal as a fraction <<num, den>>, which keeps  *)
(* every intermediate value inside TLC's 32-bit integers.                  *)
(*                                                                         *)
(* Vectors.  A numpy vector is a sequence; Python index i is index i+1     *)
(* here.  None is the empty sequence.                                      *)
(*                                                                         *)
(* Dynamics.  rhs() returns the solution of M dx = F for the lambdified    *)
(* Kane equations.  Its upper half is the kinematic identity dq = u and is *)
(* modelled exactly; its lower half (the accelerations) is not computed:   *)
(* each constructed environment has one acceleration, drawn from AccSet at *)
(* construction, which rhs returns on every lower row.  No claim settled   *)
(* here depends on the values of the accelerations.                        *)
(*                                                                         *)
(* Derivation.  _setup_symbolic_model and _setup_numeric_evaluation are    *)
(* not computed either: derivations counts their runs and compiled keeps,  *)
(* for each configuration derived, the acceleration its functions solve to,*)
(* the same whenever the same configuration is derived again.              *)
(***************************************************************************)
EXTENDS Integers, Sequences, FiniteSets, TLC

(* ---------------------------------------------------------------- bounds *)
MaxNodes == 2
MaxSteps == 3
MaxRuns == 1
MaxEnvs == 2

(* ------------------------------------------------------------ arithmetic *)
Scale == 10^5

None == <<>>

\* no call made, hence no result
NoResult == [exc |-> "no call"]

Abs(x) == IF x < 0 THEN -x ELSE x

\* x * (r[1]/r[2]) for a literal r of the program, symmetric about zero
Scal(r, x) == IF x >= 0 THEN (r[1] * x) \div r[2] ELSE -((r[1] * (-x)) \div r[2])

\* the float value of the literal r
Val(r) == (r[1] * Scale) \div r[2]

\* numpy.pi, and -pi/2 as reset() writes it
Pi == 314159

(* ------------------------------------------------- TriplePendulumEnv data *)
\* defaults of __init__'s keyword arguments
arm_length_default == 33333
bob_mass_default == 333

dt == <<1, 100>>
force_increment == <<3, 10>>
force_smoothing == <<1, 10>>

\* geometry of the animation window
cart_width == <<4, 10>>
window_width == <<4, 1>>
xmin == -(Val(window_width) \div 2)
xmax == Val(window_width) \div 2

\* the values a caller passes to the constructor
NumNodesSet == 1..MaxNodes
ArmLengthSet == {-arm_length_default, arm_length_default}
BobMassSet == {-bob_mass_default, bob_mass_default}

\* accelerations rhs may return (lower half of dx), in Scale units
AccSet == {-(2 * 10^9), 0, 2 * 10^9}

\* what a caller writes into a vector it was handed, and where
MutValue == 7 * Scale
MutIndexes(nn) == {1, nn + 2}

VARIABLES
    pc,             \* where the client script is: "new", "api", "main", "anim"
    n,              \* self.n
    arm_length,     \* self.arm_length
    bob_mass,       \* self.bob_mass
    acc,            \* the acceleration self.M_func, self.F_func solve to
    derivations,    \* runs of _setup_symbolic_model so far, over all environments
    compiled,       \* what they derived: <<num_nodes, arm_length, bob_mass, acc>>
    current_state,  \* self.current_state (None or a vector)
    current_time,   \* self.current_time
    applied_force,  \* self.applied_force
    target_force,   \* self.target_force
    current_frame,  \* self.current_frame
    state,          \* the client's variable `state`
    aliased,        \* TRUE iff `state` is the very array self.current_state
    states,         \* the client's array of states, one row per time step
    k,              \* iterations of the pre-computation loop done
    frame,          \* loop variable of animate_pendulum's frame loop
    runs,           \* calls of animate_pendulum made
    last_op,        \* the last operation that wrote a state vector
    arg_state,      \* RewardManager: the state its caller passes
    old_state,      \* RewardManager: self.old_state
    weights,        \* RewardManager: its other six fields, by name
    prior,          \* self.old_state as it was when the latest call began
    res_false,      \* result of calculate_reward(arg_state, False, _), once called
    res_true,       \* result of calculate_reward(arg_state, True, _), once called
    res_components, \* result of get_reward_components(arg_state, _), once called
    tr_pc,          \* collect_trajectory: the line it is at
    tr_next_state,  \* collect_trajectory: next_state
    tr_terminated,  \* collect_trajectory: terminated
    render_mode,    \* self.env.render_mode
    raised_at,      \* collect_trajectory: the line that raised, 0 if none
    memory          \* self.memory.buffer, the transitions pushed

env_vars == <<pc, n, arm_length, bob_mass, acc, derivations, compiled, current_state, current_time, applied_force,
              target_force, current_frame, state, aliased, states, k, frame, runs, last_op>>
reward_vars == <<arg_state, old_state, weights, prior, res_false, res_true, res_components>>
train_vars == <<tr_pc, tr_next_state, tr_terminated, render_mode, raised_at, memory>>
vars == <<env_vars, reward_vars, train_vars>>

cfg_vars == <<n, arm_length, bob_mass, acc, derivations, compiled>>
anim_vars == <<applied_force, target_force, current_frame>>
loop_vars == <<states, k, frame, runs>>

(* ------------------------------------------------------- pure operations *)
\* len(self.q) and len(self.u): dynamicsymbols('q:{num_nodes+1}')
LenQ(nn) == nn + 1

Ones(m, v) == [i \in 1..m |-> v]

\* reset() with one speed per link only, the cart's forgotten
ResetVector_NoCartSpeed(nn) ==
    LET position_initial == 0
        angles_init == (-Pi) \div 2
        speeds_init == Val(<<1, 1000>>)
    IN  <<position_initial>> \o Ones(LenQ(nn) - 1, angles_init) \o Ones(LenQ(nn) - 1, speeds_init)

\* the vector reset() builds
ResetVector(nn) ==
    LET position_initial == 0
        angles_init == (-Pi) \div 2
        speeds_init == Val(<<1, 1000>>)
    IN  <<position_initial>> \o Ones(LenQ(nn) - 1, angles_init) \o Ones(LenQ(nn), speeds_init)

\* dx = rhs(x, ...): dq = u exactly, du the environment's acceleration a
Rhs(x, nn, a) == [i \in 1..(2 * nn + 2) |-> IF i <= nn + 1 THEN x[i + nn + 1] ELSE a]

\* an integration step that adds the derivative without scaling it by dt
Euler_NoDt(x, dx) == [i \in 1..Len(x) |-> x[i] + dx[i]]

\* state + dx * dt
Euler(x, dx) == [i \in 1..Len(x) |-> x[i] + Scal(dt, dx[i])]

\* a force that jumps to its target at once
Smooth_Jump(applied, target) == target

\* self.applied_force += self.force_smoothing * (self.target_force - self.applied_force)
Smooth(applied, target) == applied + Scal(force_smoothing, target - applied)

\* a wall contact that stops the cart at the wall but keeps its velocity
Clamp_KeepsVelocity(next_state) ==
    LET cart_position == next_state[1]
        half == Val(cart_width) \div 2
    IN  IF cart_position - half < xmin
        THEN [next_state EXCEPT ![1] = xmin + half]
        ELSE IF cart_position + half > xmax
        THEN [next_state EXCEPT ![1] = xmax - half]
        ELSE next_state

\* the wall contact of animate_pendulum.step; num_joints = states.shape[1] // 2
Clamp(next_state) ==
    LET num_joints == Len(next_state) \div 2
        cart_position == next_state[1]
        half == Val(cart_width) \div 2
    IN  IF cart_position - half < xmin
        THEN [next_state EXCEPT ![1] = xmin + half, ![num_joints + 1] = 0]
        ELSE IF cart_position + half > xmax
        THEN [next_state EXCEPT ![1] = xmax - half, ![num_joints + 1] = 0]
        ELSE next_state

(* --------------------------------------------------- RewardManager data *)
cart_position_weight == <<1, 1>>
termination_penalty == <<10, 1>>
alignement_weight == <<1, 10>>
upright_weight == <<1, 1>>
stability_weight == <<2, 100>>
length == <<1, 2>>

\* Python's s[a:b] for 0 <= a <= b
Slice(s, a, b) == SubSeq(s, a + 1, IF b < Len(s) THEN b ELSE Len(s))

\* numpy.cos, tabulated on the angles of AngleSet
cos(th) ==
    CASE th = 0 -> Scale
      [] th = 104720 -> Scale \div 2
      [] th = 157080 -> 0
      [] th = -157080 -> 0
      [] th = Pi -> -Scale
      [] th = -Pi -> -Scale

\* x / numpy.pi, with pi as 355/113
DivPi(x) == Scal(<<113, 355>>, x)

\* x**2
Square(x) == (x * x) \div Scale

\* x_penalty
XPenalty(x) == Scal(cart_position_weight, Abs(x))

\* a misalignment that adds the last pair of angles instead of comparing them
NonAlignementPenalty_Sum(th1, th2, th3) ==
    DivPi(Scal(alignement_weight, Abs(th1 - th2) + Abs(th2 - th3) + Abs(th3 + th1)))

\* non_alignement_penalty
NonAlignementPenalty(th1, th2, th3) ==
    DivPi(Scal(alignement_weight, Abs(th1 - th2) + Abs(th2 - th3) + Abs(th3 - th1)))

\* p1_y, p2_y, p3_y and upright_reward
UprightReward(th1, th2, th3) ==
    LET p1_y == -Scal(length, cos(th1))
        p2_y == p1_y + Scal(length, cos(th2))
        p3_y == p2_y + Scal(length, cos(th3))
    IN  Scal(upright_weight, -p1_y - p2_y - p3_y)

\* stability_penalty
StabilityPenalty(th1_dot, th1_ddot, th2_dot, th2_ddot, th3_dot, th3_ddot) ==
    LET angular_velocity_penalty ==
            Scal(<<1, 3>>, Square(th1_dot) + Square(th2_dot) + Square(th3_dot))
        angular_accel_penalty ==
            Scal(<<1, 3>>, Square(th1_ddot) + Square(th2_ddot) + Square(th3_ddot))
    IN  Scal(stability_weight, angular_velocity_penalty + angular_accel_penalty)

\* a termination penalty that is charged to the uprightness component
Terminate_OnUpright(r, terminated) ==
    IF terminated
    THEN [r EXCEPT !.reward = r.reward - Val(termination_penalty),
                   !.upright_reward = r.upright_reward - Val(termination_penalty)]
    ELSE r

\* if terminated: reward -= self.termination_penalty
Terminate(r, terminated) ==
    IF terminated THEN [r EXCEPT !.reward = r.reward - Val(termination_penalty)] ELSE r

\* RewardManager.calculate_reward(state, terminated, current_step): the tuple
\* it returns, or the ValueError of an unpacking of other than three values
calculate_reward(st, terminated) ==
    LET cart == Slice(st, 0, 3)
        first == Slice(st, 3, 6)
        second == Slice(st, 6, 9)
        third == Slice(st, 9, 12)
    IN  IF Len(cart) # 3 \/ Len(first) # 3 \/ Len(second) # 3 \/ Len(third) # 3
        THEN [exc |-> "ValueError"]
        ELSE LET x == cart[1]
                 th1 == first[1]
                 th2 == second[1]
                 th3 == third[1]
                 x_penalty == XPenalty(x)
                 non_alignement_penalty == NonAlignementPenalty(th1, th2, th3)
                 upright_reward == UprightReward(th1, th2, th3)
                 stability_penalty ==
                     StabilityPenalty(first[2], first[3], second[2], second[3], third[2], third[3])
             IN  Terminate([exc |-> "none",
                            reward |-> upright_reward - x_penalty - non_alignement_penalty
                                         - stability_penalty,
                            upright_reward |-> upright_reward,
                            x_penalty |-> x_penalty,
                            non_alignement_penalty |-> non_alignement_penalty,
                            stability_penalty |-> stability_penalty], terminated)

\* RewardManager.get_reward_components(state, current_step)
get_reward_components(st) == calculate_reward(st, FALSE)

\* the fields RewardManager.__init__ sets, old_state apart
WeightsInit ==
    [cart_position_weight |-> cart_position_weight,
     termination_penalty |-> termination_penalty,
     alignement_weight |-> alignement_weight,
     upright_weight |-> upright_weight,
     stability_weight |-> stability_weight,
     length |-> length]

\* a reward that is lowered by one unit once the manager has seen a state
CallOn_History(self, st, terminated) ==
    LET r == calculate_reward(st, terminated)
    IN  [out |-> IF r.exc = "none" /\ self.old_state # None
                 THEN [r EXCEPT !.reward = r.reward - 1]
                 ELSE r,
         self |-> IF r.exc = "none" THEN [self EXCEPT !.old_state = st] ELSE self]

\* calculate_reward as a method: what it returns (out) and the manager it
\* leaves (self), whose only assignment is self.old_state = state
CallOn(self, st, terminated) ==
    LET r == calculate_reward(st, terminated)
    IN  [out |-> r,
         self |-> IF r.exc = "none" THEN [self EXCEPT !.old_state = st] ELSE self]

\* the states of a manager's earlier calls
EarlierStates ==
    { <<50000, 0, 0, Pi, 0, 0, Pi, 100, 0, Pi, 100, 0>>,
      <<0, 0, 0, 0, 30000, 0, 0, 100, 0, 0, 100, 20000>> }

\* the states the reward manager is called with: in its own layout
\* (x, x_dot, x_ddot, th1, th1_dot, th1_ddot, th2, ..., th3_ddot) ...
AngleSet == {-157080, 0, 104720, 157080, Pi}
RewardLayoutStates ==
    { <<x, 0, 0, th1, v, 0, th2, 100, 0, th3, 100, a>> :
        x \in {-180000, 0, 50000}, th1 \in AngleSet, th2 \in AngleSet, th3 \in AngleSet,
        v \in {0, 30000}, a \in {0, 20000} }

\* ... and in the environment's: what reset() and a step after it produce
EnvStates ==
    { ResetVector(nn) : nn \in NumNodesSet }
        \cup { Clamp(Euler(ResetVector(nn), Rhs(ResetVector(nn), nn, a))) :
                 nn \in NumNodesSet, a \in AccSet }

(* ------------------------------------------------------------ train data *)
\* config['num_nodes']
TrainNodes == 2

\* the attributes class TriplePendulumEnv defines
TriplePendulumEnvAttrs ==
    {"__init__", "_setup_symbolic_model", "_setup_numeric_evaluation", "rhs", "reset",
     "get_state", "_render_init", "animate_pendulum",
     "reward_manager", "render_mode", "n", "arm_length", "bob_mass", "friction_coefficient",
     "dt", "current_state", "current_time", "applied_force", "force_increment",
     "target_force", "force_smoothing", "current_frame", "q", "u", "f", "m", "l", "g", "t",
     "kane", "fr", "frstar", "parameter_vals", "M_func", "F_func"}

\* the attributes class RewardManager defines
RewardManagerAttrs ==
    {"__init__", "calculate_reward", "get_reward_components",
     "cart_position_weight", "termination_penalty", "alignement_weight", "upright_weight",
     "stability_weight", "old_state", "length"}

\* self.max_steps
max_steps == 500

\* float64's values that are no numbers
PosInf == 2 * 10^9 + 10
NegInf == -PosInf
NaN == 2 * 10^9 + 20

IsFinite(x) == x \notin {PosInf, NegInf, NaN}

\* IEEE 754 addition
FAdd(a, b) ==
    IF a = NaN \/ b = NaN THEN NaN
    ELSE IF a = PosInf THEN (IF b = NegInf THEN NaN ELSE PosInf)
    ELSE IF a = NegInf THEN (IF b = PosInf THEN NaN ELSE NegInf)
    ELSE IF b \in {PosInf, NegInf} THEN b
    ELSE a + b

\* numpy.sum of a vector
RECURSIVE FSum(_)
FSum(s) == IF Len(s) = 0 THEN 0 ELSE FAdd(FSum(SubSeq(s, 1, Len(s) - 1)), s[Len(s)])

\* np.isnan(np.sum(next_state))
NanDetected(v) == FSum(v) = NaN

\* the vectors a step may hand to the rollout loop
FloatSet == {100, NaN, PosInf, NegInf}
FloatVecs(nn) == [1..(2 * nn + 2) -> FloatSet]

(* ------------------------------------------------------------------ Init *)
EnvInit ==
    /\ pc = "new"
    /\ n = 0
    /\ arm_length = 0
    /\ bob_mass = 0
    /\ acc = 0
    /\ derivations = 0
    /\ compiled = {}
    /\ current_state = None
    /\ current_time = 0
    /\ applied_force = 0
    /\ target_force = 0
    /\ current_frame = 0
    /\ state = None
    /\ aliased = FALSE
    /\ states = <<>>
    /\ k = 0
    /\ frame = 0
    /\ runs = 0
    /\ last_op = "none"

\* no reward manager call made yet
RewardIdle ==
    /\ arg_state = None
    /\ old_state = None
    /\ weights = WeightsInit
    /\ prior = None
    /\ res_false = NoResult
    /\ res_true = NoResult
    /\ res_components = NoResult

\* no rollout under way
TrainIdle ==
    /\ tr_pc = "idle"
    /\ tr_next_state = None
    /\ tr_terminated = FALSE
    /\ render_mode = "None"
    /\ raised_at = 0
    /\ memory = <<>>

Init == EnvInit /\ RewardIdle /\ TrainIdle

(* --------------------------------------------------------------- actions *)
\* TriplePendulumEnv(num_nodes=, arm_length=, bob_mass=): no argument is checked
Construct(num_nodes, al, bm, a) ==
    /\ UNCHANGED <<reward_vars, train_vars>>
    /\ pc \in {"new", "api"}
    /\ derivations < MaxEnvs
    /\ \A c \in compiled : <<c[1], c[2], c[3]>> = <<num_nodes, al, bm>> => c[4] = a
    /\ pc' = "api"
    /\ n' = num_nodes
    /\ arm_length' = al
    /\ bob_mass' = bm
    /\ acc' = a
    /\ derivations' = derivations + 1
    /\ compiled' = compiled \cup {<<num_nodes, al, bm, a>>}
    /\ current_state' = None
    /\ current_time' = 0
    /\ applied_force' = 0
    /\ target_force' = 0
    /\ current_frame' = 0
    /\ aliased' = FALSE
    /\ last_op' = "construct"
    /\ UNCHANGED <<state, loop_vars>>

\* state = env.reset(): the env keeps a copy, the caller gets the array built
Reset ==
    /\ UNCHANGED <<reward_vars, train_vars>>
    /\ pc = "api"
    /\ current_state' = ResetVector(n)
    /\ current_time' = 0
    /\ state' = ResetVector(n)
    /\ aliased' = FALSE
    /\ last_op' = "reset"
    /\ UNCHANGED <<pc, cfg_vars, anim_vars, loop_vars>>

\* state = env.get_state(): the env's own array, or reset()'s result if None
GetState ==
    /\ UNCHANGED <<reward_vars, train_vars>>
    /\ pc = "api"
    /\ IF current_state # None
       THEN /\ state' = current_state
            /\ aliased' = TRUE
            /\ UNCHANGED <<current_state, current_time>>
       ELSE /\ current_state' = ResetVector(n)
            /\ current_time' = 0
            /\ state' = ResetVector(n)
            /\ aliased' = FALSE
    /\ last_op' = "get_state"
    /\ UNCHANGED <<pc, cfg_vars, anim_vars, loop_vars>>

\* state[i] = v by the caller, in place
Mutate(i, v) ==
    /\ UNCHANGED <<reward_vars, train_vars>>
    /\ pc = "api"
    /\ state # None
    /\ i \in DOMAIN state
    /\ state[i] # v
    /\ state' = [state EXCEPT ![i] = v]
    /\ current_state' = IF aliased THEN [current_state EXCEPT ![i] = v] ELSE current_state
    /\ last_op' = "mutate"
    /\ UNCHANGED <<pc, cfg_vars, current_time, anim_vars, aliased, loop_vars>>

\* __main__: env = TriplePendulumEnv(); state = env.reset(); states = [state]
MainStart ==
    /\ UNCHANGED <<reward_vars, train_vars>>
    /\ pc = "api"
    /\ last_op = "construct"
    /\ derivations = 1
    /\ arm_length > 0
    /\ bob_mass > 0
    /\ pc' = "main"
    /\ current_state' = ResetVector(n)
    /\ current_time' = 0
    /\ state' = ResetVector(n)
    /\ aliased' = FALSE
    /\ states' = <<ResetVector(n)>>
    /\ k' = 0
    /\ last_op' = "reset"
    /\ UNCHANGED <<cfg_vars, anim_vars, frame, runs>>

\* __main__: one iteration of the pre-computation loop
MainStep ==
    /\ UNCHANGED <<reward_vars, train_vars>>
    /\ pc = "main"
    /\ k < MaxSteps
    /\ LET dx == Rhs(state, n, acc)
       IN  /\ state' = Euler(state, dx)
           /\ states' = Append(states, Euler(state, dx))
    /\ current_time' = current_time + Val(dt)
    /\ k' = k + 1
    /\ last_op' = "main_step"
    /\ UNCHANGED <<pc, cfg_vars, current_state, anim_vars, aliased, frame, runs>>

\* __main__: env.animate_pendulum(steps=max_steps, states=states, ...)
AnimateStart ==
    /\ UNCHANGED <<reward_vars, train_vars>>
    /\ \/ pc = "main" /\ k = MaxSteps
       \/ pc = "anim" /\ frame = MaxSteps
    /\ runs < MaxRuns
    /\ pc' = "anim"
    /\ frame' = 0
    /\ runs' = runs + 1
    /\ UNCHANGED <<last_op, cfg_vars, current_state, current_time, anim_vars, state, aliased, states, k>>

\* animate_pendulum.step(frame), called by the frame loop; what it draws on
\* the figure (lines 207-219) is no state of the program
StepFrame ==
    /\ UNCHANGED <<reward_vars, train_vars>>
    /\ pc = "anim"
    /\ frame < MaxSteps
    /\ current_frame' = frame
    /\ IF frame < MaxSteps - 1
       THEN /\ applied_force' = Smooth(applied_force, target_force)
            /\ LET current == states[frame + 1]
                   next_state == Euler(current, Rhs(current, n, acc))
               IN  states' = [states EXCEPT ![frame + 2] = Clamp(next_state)]
       ELSE UNCHANGED <<applied_force, states>>
    /\ frame' = frame + 1
    /\ last_op' = "step"
    /\ UNCHANGED <<pc, cfg_vars, current_state, current_time, target_force, state, aliased, k, runs>>

\* handle_key_press, delivered in the plt.pause that follows a frame
KeyPress(key) ==
    /\ UNCHANGED <<reward_vars, train_vars>>
    /\ pc = "anim"
    /\ frame >= 1
    /\ CASE key = "left" ->
              /\ target_force' = -Val(force_increment)
              /\ UNCHANGED <<current_state, current_time, states>>
         [] key = "right" ->
              /\ target_force' = Val(force_increment)
              /\ UNCHANGED <<current_state, current_time, states>>
         [] key = " " ->
              /\ target_force' = 0
              /\ current_state' = ResetVector(n)
              /\ current_time' = 0
              /\ states' = [i \in 1..Len(states) |->
                              IF i >= current_frame + 1 THEN ResetVector(n) ELSE states[i]]
    /\ last_op' = IF key = " " THEN "reset" ELSE last_op
    /\ UNCHANGED <<pc, cfg_vars, applied_force, current_frame, state, aliased, k, frame, runs>>

\* handle_key_release
KeyRelease(key) ==
    /\ UNCHANGED <<reward_vars, train_vars>>
    /\ pc = "anim"
    /\ frame >= 1
    /\ target_force # 0
    /\ target_force' = 0
    /\ UNCHANGED <<pc, cfg_vars, current_state, current_time, applied_force, current_frame,
                   state, aliased, loop_vars, last_op>>

Next ==
    \/ \E nn \in NumNodesSet, al \in ArmLengthSet, bm \in BobMassSet, a \in AccSet :
          Construct(nn, al, bm, a)
    \/ Reset
    \/ GetState
    \/ \E i \in MutIndexes(n) : Mutate(i, MutValue)
    \/ MainStart
    \/ MainStep
    \/ AnimateStart
    \/ StepFrame
    \/ \E key \in {"left", "right", " "} : KeyPress(key)
    \/ \E key \in {"left", "right"} : KeyRelease(key)

Spec == Init /\ [][Next]_vars

(* --------------------------------------------------------- reward calls *)
InitReward ==
    /\ EnvInit
    /\ TrainIdle
    /\ arg_state \in RewardLayoutStates \cup EnvStates
    /\ old_state = None
    /\ weights = WeightsInit
    /\ prior = None
    /\ res_false = NoResult
    /\ res_true = NoResult
    /\ res_components = NoResult

\* the manager object: self.old_state and the six other fields
Self == [old_state |-> old_state] @@ weights

\* what a call leaves in the manager's fields
Leaves(self) ==
    /\ old_state' = self.old_state
    /\ weights' = [f \in DOMAIN weights |-> self[f]]
    /\ prior' = old_state

\* reward_manager.calculate_reward(arg_state, terminated, _)
CalculateReward(terminated) ==
    /\ LET c == CallOn(Self, arg_state, terminated)
       IN  /\ IF terminated
              THEN res_true' = c.out /\ UNCHANGED res_false
              ELSE res_false' = c.out /\ UNCHANGED res_true
           /\ Leaves(c.self)
    /\ UNCHANGED <<arg_state, res_components, env_vars, train_vars>>

\* reward_manager.get_reward_components(arg_state, _)
GetRewardComponents ==
    /\ LET c == CallOn(Self, arg_state, FALSE)
       IN  /\ res_components' = c.out
           /\ Leaves(c.self)
    /\ UNCHANGED <<arg_state, res_false, res_true, env_vars, train_vars>>

\* reward_manager.calculate_reward(st, terminated, _) on another state, the
\* result going to another caller
CalculateRewardEarlier(st, terminated) ==
    /\ st # arg_state
    /\ old_state # st
    /\ Leaves(CallOn(Self, st, terminated).self)
    /\ UNCHANGED <<arg_state, res_false, res_true, res_components, env_vars, train_vars>>

NextReward ==
    \/ \E terminated \in BOOLEAN : CalculateReward(terminated)
    \/ GetRewardComponents
    \/ \E st \in EarlierStates, terminated \in BOOLEAN : CalculateRewardEarlier(st, terminated)

SpecReward == InitReward /\ [][NextReward]_vars

(* ------------------------------------------- collect_trajectory, one pass *)
\* The environment as TriplePendulumTrainer.__init__ leaves it: constructed
\* with config['num_nodes'] links, reset, and read with get_state.
TrainerEnv ==
    /\ pc = "api"
    /\ n = TrainNodes
    /\ arm_length = arm_length_default
    /\ bob_mass = bob_mass_default
    /\ acc \in AccSet
    /\ derivations = 1
    /\ compiled = {<<n, arm_length, bob_mass, acc>>}
    /\ current_state = ResetVector(TrainNodes)
    /\ current_time = 0
    /\ applied_force = 0
    /\ target_force = 0
    /\ current_frame = 0
    /\ states = <<>>
    /\ k = 0
    /\ frame = 0
    /\ runs = 0
    /\ last_op = "get_state"

\* collect_trajectory, from its first line.  RewardManager defines no reset
\* and TriplePendulumEnv no step, so lines 103 and 118 raise; what follows
\* each is entered too, line 121 with the vector and the flag a step would
\* have returned as inputs.
InitTrain ==
    /\ TrainerEnv
    /\ RewardIdle
    /\ render_mode \in {"human", "None"}
    /\ raised_at = 0
    /\ memory = <<>>
    /\ \/ /\ tr_pc = "l94"
          /\ state = None
          /\ aliased = FALSE
          /\ tr_next_state = None
          /\ tr_terminated = FALSE
       \/ /\ tr_pc = "l118"
          /\ state = current_state
          /\ aliased = TRUE
          /\ tr_next_state = None
          /\ tr_terminated = FALSE
       \/ /\ tr_pc = "l121"
          /\ state = current_state
          /\ aliased = TRUE
          /\ tr_next_state \in FloatVecs(TrainNodes)
          /\ tr_terminated \in BOOLEAN

\* state = self.env.reset(); state = self.env.get_state(); ...;
\* self.reward_manager.reset()
TrainCollectStart ==
    /\ tr_pc = "l94"
    /\ current_state' = ResetVector(n)
    /\ current_time' = 0
    /\ state' = ResetVector(n)
    /\ aliased' = TRUE
    /\ last_op' = "get_state"
    /\ IF "reset" \in RewardManagerAttrs
       THEN tr_pc' = "l118" /\ UNCHANGED raised_at
       ELSE tr_pc' = "raised" /\ raised_at' = 103
    /\ UNCHANGED <<pc, cfg_vars, anim_vars, loop_vars, reward_vars,
                   tr_next_state, tr_terminated, render_mode, memory>>

\* next_state, terminated = self.env.step(action)
TrainEnvStep ==
    /\ tr_pc = "l118"
    /\ IF "step" \in TriplePendulumEnvAttrs
       THEN /\ tr_pc' = "l121"
            /\ \E v \in FloatVecs(TrainNodes) : tr_next_state' = v
            /\ UNCHANGED raised_at
       ELSE /\ tr_pc' = "raised"
            /\ raised_at' = 118
            /\ UNCHANGED tr_next_state
    /\ UNCHANGED <<tr_terminated, render_mode, memory, env_vars, reward_vars>>

\* if np.isnan(np.sum(next_state)): raise ValueError
TrainNanCheck ==
    /\ tr_pc = "l121"
    /\ IF NanDetected(tr_next_state)
       THEN tr_pc' = "raised" /\ raised_at' = 123
       ELSE tr_pc' = "l126" /\ UNCHANGED raised_at
    /\ UNCHANGED <<tr_next_state, tr_terminated, render_mode, memory, env_vars, reward_vars>>

\* if self.env.render_mode == "human": self.env.render(episode, self.epsilon)
TrainRender ==
    /\ tr_pc = "l126"
    /\ IF render_mode = "human" /\ "render" \notin TriplePendulumEnvAttrs
       THEN tr_pc' = "raised" /\ raised_at' = 127
       ELSE tr_pc' = "l133" /\ UNCHANGED raised_at
    /\ UNCHANGED <<tr_next_state, tr_terminated, render_mode, memory, env_vars, reward_vars>>

\* custom_reward, _, _, _, _, _, force_terminated = calculate_reward(next_state, ...):
\* calculate_reward raises, or its five values fail to unpack into seven names
TrainCalculateReward ==
    /\ tr_pc = "l133"
    /\ Leaves(CallOn(Self, tr_next_state, tr_terminated).self)
    /\ tr_pc' = "raised"
    /\ raised_at' = 133
    /\ UNCHANGED <<tr_next_state, tr_terminated, render_mode, memory, env_vars,
                   arg_state, res_false, res_true, res_components>>

NextTrain ==
    \/ TrainCollectStart
    \/ TrainEnvStep
    \/ TrainNanCheck
    \/ TrainRender
    \/ TrainCalculateReward

SpecTrain == InitTrain /\ [][NextTrain]_vars

(* ================================================================ claims *)
\* the travel limit of the cart's centre: xmax - cart_width/2
TravelLimit == xmax - Val(cart_width) \div 2

\* the vector the last reset() handed back: the client's `state`, or, when the
\* space key called it, the row of `states` it was stored in
ResetResult == IF pc = "anim" THEN states[current_frame + 1] ELSE state

\* the places reset() is called from: the client, get_state() on a fresh
\* environment, and the space key
ResetCalled == Reset \/ MainStart \/ (GetState /\ current_state = None) \/ KeyPress(" ")

\* C1: whatever happened before, reset() returns a vector of length 2n+2 with
\* cart position 0, n angles -pi/2 and n+1 velocities 1e-3; a reset() right
\* after a reset() returns the same vector.
C1_ResetReturnsInitialState ==
    [][ResetCalled =>
          /\ Len(ResetResult') = 2 * n + 2
          /\ ResetResult'[1] = 0
          /\ \A i \in 2..(n + 1) : ResetResult'[i] = -157080
          /\ \A i \in (n + 2)..(2 * n + 2) : ResetResult'[i] = 100
          /\ (last_op = "reset" => ResetResult' = ResetResult)]_vars

\* C1 witness: reset() has run in the middle of an animation, after frames
\* were stepped and a key was held
C1_Witness ==
    /\ pc = "anim"
    /\ last_op = "reset"
    /\ current_frame > 0
    /\ applied_force # 0
    /\ states[current_frame + 1][1] = 0

\* C2 (as claimed): once the environment has been stepped, its own current
\* state is the state the step produced and its clock has advanced by dt per step.
C2_StepAdvancesOwnState ==
    last_op = "main_step" => (current_state = state /\ current_time = k * Val(dt))

C8_ReturnedVectorIsCopy ==
    [][(\E i \in MutIndexes(n) : Mutate(i, MutValue)) => current_state' = current_state]_vars

\* C9 (as claimed): construction fails on a link count below 1 or a length or
\* mass that is not positive, so no environment that reset() has run on has one.
C9_InvalidConfigRejected ==
    (pc # "new" /\ current_state # None) => (n >= 1 /\ arm_length > 0 /\ bob_mass > 0)

\* the results of the calls made so far that returned
Returned == { r \in {res_false, res_true, res_components} : r.exc = "none" }

\* the angles the reward manager reads from arg_state: state[3], state[6], state[9]
ReadAngles == <<arg_state[4], arg_state[7], arg_state[10]>>

\* C4: for one state, the reward with terminated=True is the reward with
\* terminated=False less exactly termination_penalty (10.0), and the four
\* components are the same in both calls.
C4_TerminationPenaltyExact ==
    (res_false.exc = "none" /\ res_true.exc = "none") =>
        /\ res_true.reward = res_false.reward - 10 * Scale
        /\ res_true.upright_reward = res_false.upright_reward
        /\ res_true.x_penalty = res_false.x_penalty
        /\ res_true.non_alignement_penalty = res_false.non_alignement_penalty
        /\ res_true.stability_penalty = res_false.stability_penalty

\* C4 witness: both calls were made on a state with a non-zero reward
C4_Witness ==
    /\ res_false.exc = "none"
    /\ res_true.exc = "none"
    /\ res_false.reward > 0
    /\ res_true.reward < 0

\* C5: the misalignment penalty is never negative, and is exactly 0 when the
\* three link angles are equal, whatever their common value.
C5_MisalignmentZeroWhenAligned ==
    \A r \in Returned :
        /\ r.non_alignement_penalty >= 0
        /\ (ReadAngles[1] = ReadAngles[2] /\ ReadAngles[2] = ReadAngles[3]) =>
               r.non_alignement_penalty = 0

\* C5 witness: a penalty of 0 was returned for three equal, non-zero angles
C5_Witness ==
    /\ res_components.exc = "none"
    /\ ReadAngles = <<Pi, Pi, Pi>>
    /\ res_components.non_alignement_penalty = 0

\* C6 (as claimed): the uprightness reward is w_up * L * (3 cos th1 + 2 cos th2
\* + cos th3), every link adding L * (sin th, -cos th) to the tip before it.
C6_UprightnessChain ==
    \A r \in Returned :
        r.upright_reward =
            Scal(upright_weight,
                 Scal(length, 3 * cos(ReadAngles[1]) + 2 * cos(ReadAngles[2]) + cos(ReadAngles[3])))

\* C7 (as claimed): get_reward_components on a state of the environment
\* returns, with index 0 read as the cart position and indices 1..n as the angles.
C7_RewardReadsEnvLayout ==
    (arg_state \in EnvStates /\ res_components # NoResult) =>
        /\ res_components.exc = "none"
        /\ res_components.x_penalty = Scal(cart_position_weight, Abs(arg_state[1]))
        /\ Len(arg_state) >= 4 =>
               res_components.non_alignement_penalty =
                   NonAlignementPenalty(arg_state[2], arg_state[3], arg_state[4])

\* C10 (as claimed): a next_state with a NaN or an infinity in it gets past
\* line 121 only as the ValueError of line 123.
C10_NonFiniteStateRaises ==
    (tr_pc \notin {"l118", "l121", "idle"} /\ \E i \in 1..Len(tr_next_state) : ~IsFinite(tr_next_state[i]))
        => (tr_pc = "raised" /\ raised_at = 123)

\* the velocity perturbation eps of reset(), and the scenario of __main__ with
\* one link: the state after the first iteration of the pre-computation loop
eps == ResetVector(1)[3]

AfterFirstStep == n = 1 /\ pc = "main" /\ k = 1

\* C11 (as claimed): from [0, -pi/2, eps, eps] with one link and zero control,
\* one explicit-Euler step leaves the cart position exactly 0 and changes the
\* link angle by eps * dt.
C11_CartStaysAtZero ==
    AfterFirstStep =>
        /\ states[1] = <<0, (-Pi) \div 2, eps, eps>>
        /\ state[1] = 0
        /\ state[2] - states[1][2] = Scal(dt, eps)

\* C11 (amended): from [0, -pi/2, eps, eps] with one link and zero control, one
\* explicit-Euler step moves the cart position from 0 to eps * dt, the cart
\* velocity being eps as well, and changes the link angle by eps * dt.
C11_CartAdvancesByEpsDt ==
    AfterFirstStep =>
        /\ states[1] = <<0, (-Pi) \div 2, eps, eps>>
        /\ state[1] = Scal(dt, eps)
        /\ state[1] # 0
        /\ state[2] - states[1][2] = Scal(dt, eps)

\* C11 witness: the first step of the one-link run has been taken
C11_Witness ==
    /\ AfterFirstStep
    /\ last_op = "main_step"
    /\ state[1] = 1
    /\ state[2] = ((-Pi) \div 2) + 1

\* the env.step calls of this pass that returned: next_state is bound by one
StepsPerformed == IF tr_next_state = None THEN 0 ELSE 1

\* C12 (as claimed): an episode of collect_trajectory ends by its loop, not
\* by an exception, after at most max_steps steps, with exactly one
\* transition pushed to the replay buffer for every step performed.
C12_EpisodeEndsOnePushPerStep ==
    tr_pc = "raised" =>
        /\ raised_at = 0
        /\ StepsPerformed <= max_steps
        /\ Len(memory) = StepsPerformed

\* C13: what calculate_reward and get_reward_components return for a state
\* and a termination flag does not depend on the calls the manager served
\* before: a result once returned for (arg_state, terminated) is returned
\* again by every later call, the two calls made with terminated = False agree
\* and give what the state alone determines; and no call changes a field of
\* the manager other than old_state.
C13_OldStateDoesNotInfluenceReward ==
    /\ [][/\ (res_false # NoResult => res_false' = res_false)
          /\ (res_true # NoResult => res_true' = res_true)
          /\ (res_components # NoResult => res_components' = res_components)
          /\ weights' = weights]_vars
    /\ [](/\ (res_false # NoResult /\ res_components # NoResult) => res_false = res_components
          /\ res_components # NoResult => res_components = get_reward_components(arg_state)
          /\ weights = WeightsInit)

\* C13 witness: both calls with terminated = False have returned a reward for
\* arg_state, the latest call on it by a manager that held another state
C13_Witness ==
    /\ res_false.exc = "none"
    /\ res_components.exc = "none"
    /\ old_state = arg_state
    /\ prior \in EarlierStates

\* the configurations a derivation has been run for
ConfigsDerived == { <<c[1], c[2], c[3]>> : c \in compiled }

\* C14 (as claimed): the symbolic derivation runs at most once for each
\* distinct configuration, a second environment of a configuration already
\* derived reusing the result; and no reset, get_state or step runs it.
C14_DerivedOncePerConfiguration ==
    /\ [](derivations <= Cardinality(ConfigsDerived))
    /\ [][(\E nn \in NumNodesSet, al \in ArmLengthSet, bm \in BobMassSet, a \in AccSet :
              Construct(nn, al, bm, a))
          \/ derivations' = derivations]_vars

\* C15: in an animation started with applied_force = 0 and target_force = 0,
\* whatever the order of key events and frames, target_force is one of
\* -force_increment, 0, +force_increment and applied_force stays within
\* [-force_increment, +force_increment]; a frame before the last moves
\* applied_force toward target_force by the fraction force_smoothing of the gap
\* between them; the last frame, frame = steps - 1, changes neither
\* applied_force nor a stored state.
C15_ForceSmoothing ==
    /\ [](/\ target_force \in {-Val(force_increment), 0, Val(force_increment)}
          /\ Abs(applied_force) <= Val(force_increment))
    /\ [][StepFrame =>
            LET gap == target_force - applied_force
                move == applied_force' - applied_force
            IN  IF frame < MaxSteps - 1
                THEN /\ Abs(force_smoothing[2] * move - force_smoothing[1] * gap)
                            < force_smoothing[2]
                     /\ Abs(target_force - applied_force') <= Abs(gap)
                     /\ gap # 0 => move * gap >= 0
                ELSE /\ move = 0
                     /\ states' = states
                     /\ current_state' = current_state
                     /\ current_time' = current_time]_vars

\* C15 witness: the last frame has run with a key held since the frame before
\* it, the force a tenth of the way to its target
C15_Witness ==
    /\ pc = "anim"
    /\ frame = MaxSteps
    /\ current_frame = MaxSteps - 1
    /\ last_op = "step"
    /\ target_force = -Val(force_increment)
    /\ applied_force = -Scal(force_smoothing, Val(force_increment))

====
